---- MODULE Spec2Model ----
(***************************************************************************)
(* The WAD container loader, the map and BSP loaders and the BSP traversal *)
(* of the Room engine, as one state machine:                               *)
(*   WadFile::load        (src/wad/src/lib.rs)                             *)
(*   WadFile::find_lump   (src/wad/src/lib.rs)                             *)
(*   Map::load_from_wad   (src/map/src/lib.rs)                             *)
(*   BspTree::load_from_wad, BspTree::traverse_bsp (src/player/src/lib.rs) *)
(* with BspTree::point_on_side on its own (GeometrySpec) and the frame and *)
(* sprite passes of the renderer (RenderSpec, src/renderer/src/lib.rs).    *)
(* Stream offsets are 0-based as in the code; TLA+ sequences are 1-based,  *)
(* so the byte at offset p of the stream is stream[p + 1].                 *)
(***************************************************************************)
EXTENDS Integers, Sequences, FiniteSets, TLC

VARIABLES
    stream,       \* the bytes of the reader handed to WadFile::load
    pos,          \* the reader's cursor (0-based offset)
    pc,           \* position of the program
    num_lumps,    \* WadFile::load local
    dir_offset,   \* WadFile::load local
    lumps,        \* WadFile::load local Vec<WadLump>
    io_log,       \* every read_exact and seek(Start(n)) WadFile::load has
                  \* asked of the reader (stream_position() moves nothing and
                  \* is left out)
    wad_result,   \* "none" | "Ok" | "InvalidSignature" | "Io"
    wad,          \* the WadFile returned (its lumps), <<>> while there is none
    call,         \* the last call made on the loaded data, with its result
    bsp,          \* the BspTree the last successful load returned: <<tree>>
    trav,         \* the call frames of the traverse_bsp call under way
    rpc,          \* position of the renderer
    scene,        \* the active map as the wall test of the renderer sees it
    canvas,       \* the pixels of the frame being drawn
    column,       \* render_3d_view local x
    ray,          \* the cast_ray call under way
    hits,         \* what cast_ray returned for the columns done
    sprites,      \* the sprite list handed to render_sprites
    sorted_sprites, \* render_sprites local
    sprite_log    \* the render_sprite calls made and the columns they drew

loaderVars ==
    << stream, pos, pc, num_lumps, dir_offset, lumps, io_log, wad_result,
       wad, call, bsp, trav >>

rendererVars ==
    << rpc, scene, canvas, column, ray, hits, sprites, sorted_sprites,
       sprite_log >>

vars == << stream, pos, pc, num_lumps, dir_offset, lumps, io_log, wad_result,
           wad, call, bsp, trav, rpc, scene, canvas, column, ray, hits,
           sprites, sorted_sprites, sprite_log >>

----------------------------------------------------------------------------
(* Bounds of the checked inputs *)

\* most directory entries of a container of the placement and name families
MaxLumps == 2

\* most lumps in front of the map marker in a container of the map families
MaxPre == 1

\* most lumps behind the map marker in a container of the map families
MaxFollowers == 9

\* deepest nesting of traverse_bsp calls followed: a traversal that would
\* nest deeper is not followed further
MaxDepth == 4

----------------------------------------------------------------------------
(* Bytes and text *)

NUL == 0

\* the code point U+FFFD that from_utf8_lossy puts in place of an invalid byte
REPLACEMENT_CHARACTER == 65533

\* ASCII code points of the text used in the inputs
Chr(c) ==
    CASE c = "A" -> 65 [] c = "B" -> 66 [] c = "C" -> 67 [] c = "D" -> 68
      [] c = "E" -> 69 [] c = "I" -> 73 [] c = "L" -> 76 [] c = "M" -> 77
      [] c = "P" -> 80 [] c = "S" -> 83 [] c = "T" -> 84 [] c = "U" -> 85
      [] c = "W" -> 87 [] c = "X" -> 88 [] c = "e" -> 101 [] c = "m" -> 109
      [] c = "1" -> 49 [] c = "2" -> 50

\* byteorder's LittleEndian u32 / u16 / i16 decoding of a byte slice
read_u32(b) == b[1] + 256 * b[2] + 65536 * b[3] + 16777216 * b[4]

read_u16(b) == b[1] + 256 * b[2]

read_i16(b) ==
    LET u == read_u16(b) IN IF u >= 32768 THEN u - 65536 ELSE u

\* String::from_utf8_lossy on bytes that are ASCII or 0xFF: an ASCII byte is
\* its own code point, a byte that can start no UTF-8 sequence is replaced
from_utf8_lossy(bytes) ==
    [k \in 1..Len(bytes) |->
        IF bytes[k] < 128 THEN bytes[k] ELSE REPLACEMENT_CHARACTER]

\* str::trim_end_matches('\0'): drops the NULs at the END of the text only
RECURSIVE trim_end_matches_nul(_)
trim_end_matches_nul(s) ==
    IF Len(s) > 0 /\ s[Len(s)] = NUL
    THEN trim_end_matches_nul(SubSeq(s, 1, Len(s) - 1))
    ELSE s

\* the text before the first NUL (what the code's comment announces)
RECURSIVE stop_at_first_nul(_)
stop_at_first_nul(s) ==
    IF Len(s) = 0 \/ s[1] = NUL THEN <<>>
    ELSE <<s[1]>> \o stop_at_first_nul(Tail(s))

\* lines 51-53 of WadFile::load (and the texture names of the map loader)
DecodeName(name_bytes) == trim_end_matches_nul(from_utf8_lossy(name_bytes))

----------------------------------------------------------------------------
(* The reader: std::io::Read + Seek over a fixed byte sequence *)

\* read_exact of k bytes at cursor p: fails (UnexpectedEof) when fewer than k
\* bytes remain; a read of 0 bytes succeeds wherever the cursor is
ReadExactOk(s, p, k) == k = 0 \/ p + k <= Len(s)

ReadExactBytes(s, p, k) == IF k = 0 THEN <<>> ELSE SubSeq(s, p + 1, p + k)

\* Seek::seek(SeekFrom::Start(n)) succeeds for every n, also beyond the end
SeekOk(s, n) == TRUE

RD(p, k) == [op |-> "read", at |-> p, len |-> k]

SK(n) == [op |-> "seek", at |-> n, len |-> 0]

----------------------------------------------------------------------------
(* WadFile::load *)

IWAD == << Chr("I"), Chr("W"), Chr("A"), Chr("D") >>

PWAD == << Chr("P"), Chr("W"), Chr("A"), Chr("D") >>

NoCall == [fn |-> "none"]

\* a signature check that only looks at the "WAD" tail of the magic
Mutant_InvalidSignature(signature) ==
    SubSeq(signature, 2, 4) # SubSeq(IWAD, 2, 4)

\* line 30: the condition of the InvalidSignature return
InvalidSignature(signature) == signature # IWAD /\ signature # PWAD

\* a data read whose error is dropped instead of propagated
Mutant_ReadLumpData(s, lump_offset, lump_size) ==
    [ok   |-> TRUE,
     data |-> IF ReadExactOk(s, lump_offset, lump_size)
              THEN ReadExactBytes(s, lump_offset, lump_size)
              ELSE [k \in 1..lump_size |-> 0]]

\* lines 59-60: a buffer of lump_size bytes, filled by read_exact at the
\* cursor (which line 57 moved to lump_offset)
ReadLumpData(s, lump_offset, lump_size) ==
    [ok   |-> ReadExactOk(s, lump_offset, lump_size),
     data |-> IF ReadExactOk(s, lump_offset, lump_size)
              THEN ReadExactBytes(s, lump_offset, lump_size)
              ELSE <<>>]

\* a loop that goes on reading the directory where the data read ended
Mutant_DirectoryPosition(current_pos, lump_offset, lump_size) ==
    lump_offset + lump_size

\* lines 56 and 63: the cursor saved before the data is read is where the
\* loop seeks back to
DirectoryPosition(current_pos, lump_offset, lump_size) == current_pos

\* `?` on an io::Error, and the InvalidSignature return: the load is over,
\* its locals are dropped and no WadFile is returned
LoadFails(err, log) ==
    /\ wad_result' = err
    /\ pc' = "failed"
    /\ io_log' = io_log \o log
    /\ lumps' = <<>>
    /\ UNCHANGED << stream, pos, num_lumps, dir_offset, wad, call, bsp, trav >>

\* lines 27-32: read the signature and check it
LoadSignature ==
    /\ pc = "load_signature"
    /\ IF ~ReadExactOk(stream, pos, 4)
       THEN LoadFails("Io", << RD(pos, 4) >>)
       ELSE LET signature == ReadExactBytes(stream, pos, 4) IN
            IF InvalidSignature(signature)
            THEN LoadFails("InvalidSignature", << RD(pos, 4) >>)
            ELSE /\ pc' = "load_header"
                 /\ pos' = pos + 4
                 /\ io_log' = io_log \o << RD(pos, 4) >>
                 /\ UNCHANGED << stream, num_lumps, dir_offset, lumps,
                                 wad_result, wad, call, bsp, trav >>

\* lines 35-39: read the lump count and the directory offset, seek there
LoadHeader ==
    /\ pc = "load_header"
    /\ IF ~ReadExactOk(stream, pos, 4)
       THEN LoadFails("Io", << RD(pos, 4) >>)
       ELSE IF ~ReadExactOk(stream, pos + 4, 4)
       THEN LoadFails("Io", << RD(pos, 4), RD(pos + 4, 4) >>)
       ELSE LET n == read_u32(ReadExactBytes(stream, pos, 4))
                d == read_u32(ReadExactBytes(stream, pos + 4, 4))
            IN  /\ num_lumps' = n
                /\ dir_offset' = d
                /\ pos' = d
                /\ io_log' = io_log \o << RD(pos, 4), RD(pos + 4, 4), SK(d) >>
                /\ pc' = "load_directory"
                /\ UNCHANGED << stream, lumps, wad_result, wad, call, bsp, trav >>

\* lines 42-66: one iteration of the directory loop
LoadEntry ==
    /\ pc = "load_directory"
    /\ Len(lumps) < num_lumps
    /\ IF ~ReadExactOk(stream, pos, 4)
       THEN LoadFails("Io", << RD(pos, 4) >>)
       ELSE IF ~ReadExactOk(stream, pos + 4, 4)
       THEN LoadFails("Io", << RD(pos, 4), RD(pos + 4, 4) >>)
       ELSE IF ~ReadExactOk(stream, pos + 8, 8)
       THEN LoadFails("Io", << RD(pos, 4), RD(pos + 4, 4), RD(pos + 8, 8) >>)
       ELSE
         LET lump_offset == read_u32(ReadExactBytes(stream, pos, 4))
             lump_size   == read_u32(ReadExactBytes(stream, pos + 4, 4))
             name_bytes  == ReadExactBytes(stream, pos + 8, 8)
             name        == DecodeName(name_bytes)
             current_pos == pos + 16
             entry_log   == << RD(pos, 4), RD(pos + 4, 4), RD(pos + 8, 8),
                               SK(lump_offset), RD(lump_offset, lump_size) >>
             read        == ReadLumpData(stream, lump_offset, lump_size)
             back        == DirectoryPosition(current_pos, lump_offset, lump_size)
         IN  IF ~read.ok
             THEN LoadFails("Io", entry_log)
             ELSE /\ lumps' = Append(lumps, [name |-> name, data |-> read.data])
                  /\ pos' = back
                  /\ io_log' = io_log \o entry_log \o << SK(back) >>
                  /\ UNCHANGED << stream, pc, num_lumps, dir_offset,
                                  wad_result, wad, call, bsp, trav >>

\* line 68: the loop is over, the WadFile is returned
LoadReturn ==
    /\ pc = "load_directory"
    /\ Len(lumps) = num_lumps
    /\ wad' = lumps
    /\ wad_result' = "Ok"
    /\ pc' = "loaded"
    /\ UNCHANGED << stream, pos, num_lumps, dir_offset, lumps, io_log, call,
                    bsp, trav >>

----------------------------------------------------------------------------
(* WadFile::find_lump *)

\* Iterator::position: the index (0-based) of the first lump of that name,
\* -1 for None
RECURSIVE PositionFrom(_, _, _)
PositionFrom(ls, name, i) ==
    IF i >= Len(ls) THEN -1
    ELSE IF ls[i + 1].name = name THEN i
    ELSE PositionFrom(ls, name, i + 1)

\* a search that keeps the last match instead of the first
RECURSIVE Mutant_position(_, _)
Mutant_position(ls, name) ==
    IF Len(ls) = 0 THEN -1
    ELSE IF ls[Len(ls)].name = name THEN Len(ls) - 1
    ELSE Mutant_position(SubSeq(ls, 1, Len(ls) - 1), name)

position(ls, name) == PositionFrom(ls, name, 0)

\* line 72: self.lumps.iter().find(|lump| lump.name == name)
find_lump(ls, name) ==
    LET i == position(ls, name) IN
    IF i < 0 THEN [status |-> "None"]
    ELSE [status |-> "Some", index |-> i, lump |-> ls[i + 1]]

----------------------------------------------------------------------------
(* Record arrays: the parse_* functions of Map and BspTree *)

\* The fields of each record in the order the parser reads them:
\* "i" = read_i16, "u" = read_u16, "s" = read_exact of 8 bytes, kept as text
VertexFields == << "i", "i" >>

LinedefFields == << "u", "u", "u", "u", "u", "u", "u" >>

SidedefFields == << "i", "i", "s", "s", "s", "u" >>

SectorFields == << "i", "i", "s", "s", "i", "u", "u" >>

ThingFields == << "i", "i", "u", "u", "u" >>

NodeFields == << "i", "i", "i", "i", "i", "i", "i", "i", "i", "i", "i", "i",
                 "u", "u" >>

SubsectorFields == << "u", "u" >>

SegFields == << "u", "u", "u", "u", "u", "u" >>

FieldSize(f) == IF f = "s" THEN 8 ELSE 2

FieldValue(f, bytes) ==
    CASE f = "i" -> read_i16(bytes)
      [] f = "u" -> read_u16(bytes)
      [] f = "s" -> DecodeName(bytes)

RECURSIVE RecordSize(_)
RecordSize(fields) ==
    IF fields = <<>> THEN 0 ELSE FieldSize(Head(fields)) + RecordSize(Tail(fields))

\* One pass of a parser's loop body from cursor position p: each field read
\* in turn, the first read that finds too few bytes left ends it with the
\* read's error (the `?` after every read)
RECURSIVE ReadFields(_, _, _, _)
ReadFields(data, p, fields, values) ==
    IF fields = <<>> THEN [ok |-> TRUE, values |-> values, position |-> p]
    ELSE IF ~ReadExactOk(data, p, FieldSize(Head(fields)))
    THEN [ok |-> FALSE]
    ELSE ReadFields(data, p + FieldSize(Head(fields)), Tail(fields),
                    Append(values,
                           FieldValue(Head(fields),
                                      ReadExactBytes(data, p, FieldSize(Head(fields))))))

\* a loop that stops when less than a whole record is left
Mutant_MoreRecords(data, p, fields) == p + RecordSize(fields) <= Len(data)

\* the loop condition: while cursor.position() < data.len()
MoreRecords(data, p, fields) == p < Len(data)

RECURSIVE ParseLoop(_, _, _, _)
ParseLoop(data, p, fields, records) ==
    IF ~MoreRecords(data, p, fields)
    THEN [status |-> "Ok", records |-> records]
    ELSE LET r == ReadFields(data, p, fields, <<>>) IN
         IF ~r.ok THEN [status |-> "Err", error |-> "UnexpectedEof"]
         ELSE ParseLoop(data, r.position, fields, Append(records, r.values))

parse_vertices(data) == ParseLoop(data, 0, VertexFields, <<>>)

parse_linedefs(data) == ParseLoop(data, 0, LinedefFields, <<>>)

parse_sidedefs(data) == ParseLoop(data, 0, SidedefFields, <<>>)

parse_sectors(data) == ParseLoop(data, 0, SectorFields, <<>>)

parse_things(data) == ParseLoop(data, 0, ThingFields, <<>>)

\* BspNode { x, y, dx, dy, bbox_right, bbox_left, right_child, left_child }
BspNode(v) ==
    [x |-> v[1], y |-> v[2], dx |-> v[3], dy |-> v[4],
     bbox_right |-> << v[5], v[6], v[7], v[8] >>,
     bbox_left |-> << v[9], v[10], v[11], v[12] >>,
     right_child |-> v[13], left_child |-> v[14]]

parse_nodes(data) ==
    LET r == ParseLoop(data, 0, NodeFields, <<>>) IN
    IF r.status # "Ok" THEN r
    ELSE [status |-> "Ok",
          records |-> [k \in 1..Len(r.records) |-> BspNode(r.records[k])]]

parse_subsectors(data) == ParseLoop(data, 0, SubsectorFields, <<>>)

parse_segs(data) == ParseLoop(data, 0, SegFields, <<>>)

----------------------------------------------------------------------------
(* Map::load_from_wad and BspTree::load_from_wad *)

\* a lookup that takes the last lump of the name as the marker
Mutant_MarkerIndex(ls, map_name) == Mutant_position(ls, map_name)

\* wad.lumps.iter().position(|lump| lump.name == map_name)
MarkerIndex(ls, map_name) == position(ls, map_name)

Parse(kind, data) ==
    CASE kind = "vertices"   -> parse_vertices(data)
      [] kind = "linedefs"   -> parse_linedefs(data)
      [] kind = "sidedefs"   -> parse_sidedefs(data)
      [] kind = "sectors"    -> parse_sectors(data)
      [] kind = "things"     -> parse_things(data)
      [] kind = "nodes"      -> parse_nodes(data)
      [] kind = "subsectors" -> parse_subsectors(data)
      [] kind = "segs"       -> parse_segs(data)

\* a loader that takes things and vertices from each other's lump
Mutant_MapLumps ==
    << [kind |-> "vertices", offset |-> 1],
       [kind |-> "linedefs", offset |-> 2],
       [kind |-> "sidedefs", offset |-> 3],
       [kind |-> "sectors",  offset |-> 8],
       [kind |-> "things",   offset |-> 4] >>

\* map/src/lib.rs lines 64-68, in the order of the statements
MapLumps ==
    << [kind |-> "vertices", offset |-> 4],
       [kind |-> "linedefs", offset |-> 2],
       [kind |-> "sidedefs", offset |-> 3],
       [kind |-> "sectors",  offset |-> 8],
       [kind |-> "things",   offset |-> 1] >>

\* a loader that takes the nodes from the lump behind the marker's seventh
Mutant_BspLumps ==
    << [kind |-> "nodes",      offset |-> 8],
       [kind |-> "subsectors", offset |-> 6],
       [kind |-> "segs",       offset |-> 5] >>

\* player/src/lib.rs lines 45-47, in the order of the statements
BspLumps ==
    << [kind |-> "nodes",      offset |-> 7],
       [kind |-> "subsectors", offset |-> 6],
       [kind |-> "segs",       offset |-> 5] >>

\* The statements `let x = Self::parse_x(&wad.lumps[map_index + k].data)?;`
\* one after the other: indexing the Vec beyond its length panics, a parse
\* error returns it, and the loader is done when all are through.
\* `decoded` lists which parser was handed which lump index, `parts` holds
\* what they returned, by field of the struct being built.
RECURSIVE LoadLumps(_, _, _, _, _)
LoadLumps(ls, map_index, todo, decoded, parts) ==
    IF todo = <<>>
    THEN [status |-> "Ok", map_index |-> map_index, decoded |-> decoded,
          value |-> parts]
    ELSE LET i == map_index + Head(todo).offset IN
         IF i >= Len(ls)
         THEN [status |-> "panic", error |-> "index out of bounds",
               map_index |-> map_index, decoded |-> decoded]
         ELSE LET r == Parse(Head(todo).kind, ls[i + 1].data) IN
              IF r.status # "Ok"
              THEN [status |-> "Err", error |-> r.error,
                    map_index |-> map_index,
                    decoded |-> Append(decoded, << Head(todo).kind, i >>)]
              ELSE LoadLumps(ls, map_index, Tail(todo),
                             Append(decoded, << Head(todo).kind, i >>),
                             IF decoded = <<>>
                             THEN Head(todo).kind :> r.records
                             ELSE parts @@ (Head(todo).kind :> r.records))

load_from_wad(ls, map_name, todo) ==
    LET map_index == MarkerIndex(ls, map_name) IN
    IF map_index < 0
    THEN [status |-> "Err", error |-> "Map not found", map_index |-> map_index,
          decoded |-> <<>>]
    ELSE LoadLumps(ls, map_index, todo, <<>>, <<>>)

\* Map::load_from_wad
Map_load_from_wad(ls, map_name) == load_from_wad(ls, map_name, MapLumps)

\* BspTree::load_from_wad
BspTree_load_from_wad(ls, map_name) == load_from_wad(ls, map_name, BspLumps)

----------------------------------------------------------------------------
(* BspTree::traverse_bsp *)

\* a & b of two unsigned integers
RECURSIVE BitAnd(_, _)
BitAnd(a, b) ==
    IF a = 0 \/ b = 0 THEN 0
    ELSE (a % 2) * (b % 2) + 2 * BitAnd(a \div 2, b \div 2)

\* a leaf test on the wrong bit
Mutant_is_leaf(node_index) == BitAnd(node_index, 16384) # 0

\* line 90: node_index & 0x8000 != 0
is_leaf(node_index) == BitAnd(node_index, 32768) # 0

\* line 91: node_index & 0x7FFF
leaf_subsector(node_index) == BitAnd(node_index, 32767)

\* a point on the line classified with the right side
Mutant_point_on_side_zero(x, y, node) ==
    LET dx == x - node.x
        dy == y - node.y
        cross_product == dx * node.dy - dy * node.dx
    IN  IF cross_product >= 0 THEN 1 ELSE -1

\* the sides taken for each other
Mutant_point_on_side(x, y, node) ==
    LET dx == x - node.x
        dy == y - node.y
        cross_product == dx * node.dy - dy * node.dx
    IN  IF cross_product < 0 THEN 1 ELSE -1

\* lines 114-121; the player's coordinates are whole numbers here, so the
\* f64 arithmetic is exact
point_on_side(x, y, node) ==
    LET dx == x - node.x
        dy == y - node.y
        cross_product == dx * node.dy - dy * node.dx
    IN  IF cross_product > 0 THEN 1 ELSE -1

\* lines 123-126: sqrt(d2) < 1000.0 is d2 < 1000000 for a whole number d2
\* (bbox[2] and bbox[3] are the third and fourth element)
bbox_visible(player_x, player_y, bbox) ==
    (bbox[3] - player_x) * (bbox[3] - player_x)
        + (bbox[4] - player_y) * (bbox[4] - player_y) < 1000 * 1000

\* lines 97-109: the child recursed into first, the child recursed into
\* second, and the box the second one is gated by
near_child(side, node) ==
    IF side <= 0 THEN [child |-> "left", ref |-> node.left_child]
    ELSE [child |-> "right", ref |-> node.right_child]

far_child(side, node) ==
    IF side <= 0 THEN [child |-> "right", ref |-> node.right_child]
    ELSE [child |-> "left", ref |-> node.left_child]

\* the far child gated by the box of the near one
Mutant_far_bbox(side, node) ==
    IF side <= 0 THEN node.bbox_left ELSE node.bbox_right

far_bbox(side, node) ==
    IF side <= 0 THEN node.bbox_right ELSE node.bbox_left

\* a call of traverse_bsp that has just been entered
Frame(node_index) ==
    [node_index |-> node_index, at |-> "entry", visible_subsectors |-> <<>>,
     visit |-> 0]

\* what the log of a traversal keeps of one call: the reference it was
\* entered with, what it did with it, and the recursive calls it made
Visit(node_index, leaf, yielded, calls, far_test) ==
    [node_index |-> node_index, leaf |-> leaf, indexed |-> ~leaf,
     yielded |-> yielded, calls |-> calls, far_test |-> far_test]

Top == trav.frames[Len(trav.frames)]

SetTop(frame) == [trav.frames EXCEPT ![Len(trav.frames)] = frame]

TraversalVars ==
    << stream, pos, num_lumps, dir_offset, lumps, io_log, wad_result, wad, bsp >>

\* the caller's call, on the BspTree it holds
TraverseBsp(player_x, player_y, node_index) ==
    /\ pc = "loaded"
    /\ bsp # <<>>
    /\ pc' = "traverse"
    /\ trav' = [self |-> bsp[1], player_x |-> player_x, player_y |-> player_y,
                root |-> node_index, frames |-> << Frame(node_index) >>,
                visits |-> <<>>]
    /\ call' = [fn |-> "traverse_bsp",
                arg |-> << player_x, player_y, node_index >>,
                visits |-> <<>>,
                ret |-> [status |-> "running"]]
    /\ UNCHANGED TraversalVars

\* the value or panic that ends the caller's call
TraverseResult(visits, ret) ==
    [fn |-> "traverse_bsp",
     arg |-> << trav.player_x, trav.player_y, trav.root >>,
     visits |-> visits,
     ret |-> ret]

\* lines 90-109 up to the first recursive call
TraverseEntry ==
    /\ pc = "traverse"
    /\ Top.at = "entry"
    /\ LET node_index == Top.node_index IN
       IF is_leaf(node_index)
       THEN \* lines 90-92: return vec![node_index & 0x7FFF]
            /\ trav' = [trav EXCEPT
                  !.frames = SetTop([Top EXCEPT
                      !.at = "return",
                      !.visible_subsectors = << leaf_subsector(node_index) >>]),
                  !.visits = Append(@, Visit(node_index, TRUE,
                                             << leaf_subsector(node_index) >>,
                                             <<>>, "none"))]
            /\ UNCHANGED << pc, call >>
       ELSE IF node_index >= Len(trav.self.nodes)
       THEN \* line 94: &self.nodes[node_index as usize] panics
            /\ pc' = "panicked"
            /\ call' = TraverseResult(
                          Append(trav.visits,
                                 Visit(node_index, FALSE, <<>>, <<>>, "none")),
                          [status |-> "panic", error |-> "index out of bounds"])
            /\ trav' = <<>>
       ELSE \* lines 94-100 / 105: the node, the side, the near child
            LET node == trav.self.nodes[node_index + 1]
                side == point_on_side(trav.player_x, trav.player_y, node)
                near == near_child(side, node)
            IN  /\ Len(trav.frames) < MaxDepth
                /\ trav' = [trav EXCEPT
                      !.frames = Append(SetTop([Top EXCEPT
                                            !.at = "near",
                                            !.visit = Len(trav.visits) + 1]),
                                        Frame(near.ref)),
                      !.visits = Append(@, Visit(node_index, FALSE, <<>>,
                                             << near >>, "pending"))]
                /\ UNCHANGED << pc, call >>
    /\ UNCHANGED TraversalVars

\* lines 101-103 / 106-108: the near child's call has returned; the far
\* child is called if the box of its side is visible
TraverseFar ==
    /\ pc = "traverse"
    /\ Top.at = "near_done"
    /\ LET node == trav.self.nodes[Top.node_index + 1]
           side == point_on_side(trav.player_x, trav.player_y, node)
           far  == far_child(side, node)
           bbox == far_bbox(side, node)
       IN  IF bbox_visible(trav.player_x, trav.player_y, bbox)
           THEN /\ Len(trav.frames) < MaxDepth
                /\ trav' = [trav EXCEPT
                      !.frames = Append(SetTop([Top EXCEPT !.at = "far"]),
                                        Frame(far.ref)),
                      !.visits[Top.visit] = [@ EXCEPT
                          !.calls = Append(@, far),
                          !.far_test = "visible"]]
           ELSE trav' = [trav EXCEPT
                      !.frames = SetTop([Top EXCEPT !.at = "return"]),
                      !.visits[Top.visit] = [@ EXCEPT !.far_test = "hidden"]]
    /\ UNCHANGED << pc, call >>
    /\ UNCHANGED TraversalVars

\* a call returns its visible_subsectors: the caller extends its own with
\* them (lines 100-107), the outermost caller gets the result (line 111)
TraverseReturn ==
    /\ pc = "traverse"
    /\ Top.at = "return"
    /\ IF Len(trav.frames) = 1
       THEN /\ pc' = "loaded"
            /\ call' = TraverseResult(trav.visits,
                                      [status |-> "Ok",
                                       value |-> Top.visible_subsectors])
            /\ trav' = <<>>
       ELSE LET caller == trav.frames[Len(trav.frames) - 1]
                rest   == SubSeq(trav.frames, 1, Len(trav.frames) - 2)
            IN  /\ trav' = [trav EXCEPT
                      !.frames = Append(rest, [caller EXCEPT
                          !.at = IF caller.at = "near" THEN "near_done" ELSE "return",
                          !.visible_subsectors = @ \o Top.visible_subsectors])]
                /\ UNCHANGED << pc, call >>
    /\ UNCHANGED TraversalVars

----------------------------------------------------------------------------
(* The checked inputs: byte streams built as the container format lays them *)
(* out (header: magic, lump_count, directory_offset; directory entries:    *)
(* offset, size, name[8])                                                   *)

le_u32(v) ==
    << v % 256, (v \div 256) % 256, (v \div 65536) % 256, (v \div 16777216) % 256 >>

\* the byte at offset k of a stream where nothing else was written
Filler(k) == 1 + ((k * 5) % 61)

\* `base` with `bytes` written at offset `at` (what falls beyond the end of
\* `base` is cut off)
Overlay(base, at, bytes) ==
    [k \in 1..Len(base) |->
        IF at < k /\ k <= at + Len(bytes) THEN bytes[k - at] ELSE base[k]]

RECURSIVE Flatten(_)
Flatten(ss) == IF ss = <<>> THEN <<>> ELSE Head(ss) \o Flatten(Tail(ss))

Pad8(name) == name \o [k \in 1..(8 - Len(name)) |-> NUL]

DirEntryBytes(e) == le_u32(e.off) \o le_u32(e.size) \o e.name

\* a stream of `len` bytes: filler, then `payload` at offset `at`, then the
\* directory of `entries` at `dirOff`, then the 12-byte header announcing `n`
\* lumps
BuildStreamWith(sig, n, dirOff, entries, len, at, payload) ==
    LET base == [k \in 1..len |-> Filler(k - 1)]
        dir  == Flatten([i \in 1..Len(entries) |-> DirEntryBytes(entries[i])])
    IN  Overlay(Overlay(Overlay(base, at, payload), dirOff, dir),
                0, sig \o le_u32(n) \o le_u32(dirOff))

BuildStream(sig, n, dirOff, entries, len) ==
    BuildStreamWith(sig, n, dirOff, entries, len, 0, <<>>)

T_E1M1 == << Chr("E"), Chr("1"), Chr("M"), Chr("1") >>

T_E1M2 == << Chr("E"), Chr("1"), Chr("M"), Chr("2") >>

T_e1m1 == << Chr("e"), Chr("1"), Chr("m"), Chr("1") >>

T_TESTLUMP == << Chr("T"), Chr("E"), Chr("S"), Chr("T"),
                 Chr("L"), Chr("U"), Chr("M"), Chr("P") >>

T_AB == << Chr("A"), Chr("B") >>

T_AB_CD == << Chr("A"), Chr("B"), NUL, Chr("C"), Chr("D") >>

\* the 8-byte name fields of the checked directories
NameFields ==
    { Pad8(T_E1M1), Pad8(T_e1m1), T_TESTLUMP, Pad8(T_AB), Pad8(T_AB_CD),
      Pad8(<<>>), Pad8(<< Chr("A"), 255 >>) }

\* the names looked up
LookupNames ==
    { T_E1M1, T_E1M2, T_e1m1, T_TESTLUMP, T_AB, T_AB_CD, <<>>,
      << Chr("A"), REPLACEMENT_CHARACTER >> }

\* the map names asked for
MapNames == { T_E1M1, T_E1M2, T_e1m1, T_AB }

FixedName(i) ==
    IF i = 1 THEN T_TESTLUMP ELSE IF i % 2 = 0 THEN Pad8(T_E1M1) ELSE Pad8(T_AB)

\* -- placement family: where the directory and each lump's data lie
FullLen == 28 + 16 * MaxLumps + 8

DirOffsets == { 12, 28, FullLen + 4 }

Placements(dirOff) ==
    { [off |-> 12, size |-> 4],              \* right after the header
      [off |-> 0, size |-> 12],              \* the header itself
      [off |-> dirOff + 8, size |-> 16],     \* across directory entries
      [off |-> FullLen - 8, size |-> 8],     \* the last bytes of the stream
      [off |-> FullLen - 4, size |-> 8],     \* runs past the end
      [off |-> FullLen + 8, size |-> 0],     \* empty, placed past the end
      [off |-> FullLen + 8, size |-> 4] }    \* wholly past the end

PlacementStreamsAt(n, d) ==
    { BuildStream(sig, n, d,
                  [i \in 1..n |-> [off |-> pl[i].off, size |-> pl[i].size,
                                    name |-> FixedName(i)]],
                  FullLen) :
        sig \in {IWAD, PWAD}, pl \in [1..n -> Placements(d)] }

PlacementStreams ==
    UNION { PlacementStreamsAt(n, d) : n \in 0..MaxLumps, d \in DirOffsets }

\* -- truncation family: a well-formed container cut at every length
Contiguous(n, first) ==
    [i \in 1..n |-> [off |-> first + 4 * (i - 1), size |-> 4,
                      name |-> FixedName(i)]]

\* directory first, data behind it
DirFirst(sig, n, len) ==
    BuildStream(sig, n, 12, Contiguous(n, 12 + 16 * n), len)

\* data first, directory behind it
DataFirst(sig, n, len) ==
    BuildStream(sig, n, 12 + 4 * n, Contiguous(n, 12), len)

TruncatedStreams ==
    UNION { { DirFirst(IWAD, n, len), DataFirst(PWAD, n, len) } :
              n \in 0..MaxLumps, len \in 0..(12 + 20 * MaxLumps) }

\* -- signature family: other magic bytes in front of whatever follows
BadSignatures ==
    { << Chr("X"), Chr("W"), Chr("A"), Chr("D") >>,
      << Chr("I"), Chr("W"), Chr("A"), Chr("X") >>,
      << Chr("D"), Chr("A"), Chr("W"), Chr("I") >>,
      << NUL, NUL, NUL, NUL >> }

BadSignatureStreams ==
    { DirFirst(sig, n, len) :
        sig \in BadSignatures, n \in 0..MaxLumps,
        len \in { 4, 7, 12, 12 + 20 * MaxLumps } }

\* -- name family: MaxLumps lumps, every choice of name fields
NameStreams ==
    { BuildStream(PWAD, MaxLumps, 12,
                  [i \in 1..MaxLumps |->
                      [off |-> 12 + 16 * MaxLumps + 2 * (i - 1), size |-> 2,
                       name |-> nm[i]]],
                  12 + 18 * MaxLumps) :
        nm \in [1..MaxLumps -> NameFields] }

\* -- map families: lumps in front of a marker "E1M1", the marker, and the
\* lumps behind it, data first (one block per lump, in lump order), the
\* directory behind the data
FollowerKinds ==
    << "things", "linedefs", "sidedefs", "vertices", "segs", "subsectors",
       "nodes", "sectors" >>

FieldsOf(kind) ==
    CASE kind = "vertices"   -> VertexFields
      [] kind = "linedefs"   -> LinedefFields
      [] kind = "sidedefs"   -> SidedefFields
      [] kind = "sectors"    -> SectorFields
      [] kind = "things"     -> ThingFields
      [] kind = "nodes"      -> NodeFields
      [] kind = "subsectors" -> SubsectorFields
      [] kind = "segs"       -> SegFields

\* records per lump behind the marker (things, linedefs, sidedefs, vertices,
\* segs, subsectors, nodes, sectors)
EmptyCounts == << 0, 0, 0, 0, 0, 0, 0, 0 >>

ScenarioCounts == << 0, 1, 1, 1, 0, 0, 0, 1 >>

MixedCounts == << 2, 1, 1, 5, 2, 3, 1, 1 >>

TreeCounts(nodes) == << 0, 0, 0, 0, 0, 3, nodes, 0 >>

\* size of the j-th lump behind the marker: whole records, plus `extra`
\* bytes on lump `odd` (0: on none); lumps behind the eighth hold 3 bytes
FollowerSize(j, counts, odd, extra) ==
    IF j > 8 THEN 3
    ELSE counts[j] * RecordSize(FieldsOf(FollowerKinds[j]))
            + (IF j = odd THEN extra ELSE 0)

\* name of the j-th lump behind the marker: a letter of its own, or (scheme
\* "same") "AB" for all but the third, which is called like the marker
FollowerName(j, scheme) ==
    IF scheme = "letters" THEN Pad8(<< 65 + j >>)
    ELSE IF j = 3 THEN Pad8(T_E1M1) ELSE Pad8(T_AB)

RECURSIVE SumTo(_, _)
SumTo(sizes, k) == IF k = 0 THEN 0 ELSE sizes[k] + SumTo(sizes, k - 1)

MapContainer(pre, f, counts, odd, extra, scheme, nodeBytes) ==
    LET n     == pre + 1 + f
        size  == [i \in 1..n |->
                    IF i <= pre THEN 4
                    ELSE IF i = pre + 1 THEN 0
                    ELSE FollowerSize(i - pre - 1, counts, odd, extra)]
        name  == [i \in 1..n |->
                    IF i <= pre THEN Pad8(T_e1m1)
                    ELSE IF i = pre + 1 THEN Pad8(T_E1M1)
                    ELSE FollowerName(i - pre - 1, scheme)]
        entry == [i \in 1..n |->
                    [off |-> 12 + SumTo(size, i - 1), size |-> size[i],
                     name |-> name[i]]]
        total == 12 + SumTo(size, n)
    IN  BuildStreamWith(PWAD, n, total, entry, total + 16 * n,
                        IF f >= 7 THEN entry[pre + 8].off ELSE 0, nodeBytes)

\* how many lumps lie around the marker
PresenceStreams ==
    { MapContainer(pre, f, counts, 0, 0, scheme, <<>>) :
        pre \in 0..MaxPre, f \in 0..MaxFollowers,
        counts \in {EmptyCounts, ScenarioCounts},
        scheme \in {"letters", "same"} }

\* lumps of whole records, and one lump with 1 byte too many or 1 too few
OddSizes ==
    { [odd |-> 0, extra |-> 0] } \cup
    UNION { { [odd |-> j, extra |-> 1],
              [odd |-> j, extra |-> RecordSize(FieldsOf(FollowerKinds[j])) - 1] } :
            j \in 1..8 }

AlignmentStreams ==
    { MapContainer(pre, 8, counts, o.odd, o.extra, "letters", <<>>) :
        pre \in 0..MaxPre, counts \in {EmptyCounts, ScenarioCounts, MixedCounts},
        o \in OddSizes }

\* -- tree family: a nodes lump that spells out a chosen node array
le_u16(v) == << v % 256, (v \div 256) % 256 >>

le_i16(v) == le_u16((v + 65536) % 65536)

NodeBytes(n) ==
    le_i16(n.x) \o le_i16(n.y) \o le_i16(n.dx) \o le_i16(n.dy)
        \o Flatten([k \in 1..4 |-> le_i16(n.bbox_right[k])])
        \o Flatten([k \in 1..4 |-> le_i16(n.bbox_left[k])])
        \o le_u16(n.right_child) \o le_u16(n.left_child)

NearBox == << 20, -20, 10, 10 >>

FarBox == << 20, -20, 3000, -7 >>

N(x, y, dx, dy, bbox_right, bbox_left, right_child, left_child) ==
    [x |-> x, y |-> y, dx |-> dx, dy |-> dy, bbox_right |-> bbox_right,
     bbox_left |-> bbox_left, right_child |-> right_child,
     left_child |-> left_child]

NodeArrays ==
    { \* one node over two subsectors
      << N(0, 0, 0, 1, NearBox, NearBox, 32768, 32769) >>,
      \* a node over a node and a subsector, one box of each out of sight
      << N(0, 0, 0, 1, NearBox, FarBox, 1, 32770),
         N(-5, 5, 1, -1, FarBox, NearBox, 32768, 32769) >>,
      \* children that name no node and no subsector of the tree
      << N(0, 0, 0, 1, NearBox, NearBox, 65535, 5) >>,
      \* a node that is its own right child
      << N(0, 0, 0, 1, NearBox, NearBox, 0, 32768) >> }

TreeStreams ==
    { MapContainer(0, 8, TreeCounts(Len(nodes)), 0, 0, "letters",
                   Flatten([k \in 1..Len(nodes) |-> NodeBytes(nodes[k])])) :
        nodes \in NodeArrays }

\* the viewer positions and start references of the traversals
Players == { << 5, 0 >>, << -5, 0 >>, << 0, 0 >> }

StartReferences == { 0, 1, 2, 16384, 32767, 32768, 32769, 49152, 65535 }

Streams ==
    PlacementStreams \cup TruncatedStreams \cup BadSignatureStreams
        \cup NameStreams \cup PresenceStreams \cup AlignmentStreams
        \cup TreeStreams

----------------------------------------------------------------------------
(* Calls on the loaded WadFile *)

FindLump(name) ==
    /\ pc = "loaded"
    /\ call' = [fn |-> "find_lump", arg |-> name, ret |-> find_lump(wad, name)]
    /\ UNCHANGED << stream, pos, pc, num_lumps, dir_offset, lumps, io_log,
                    wad_result, wad, bsp, trav >>

MapLoadFromWad(map_name) ==
    /\ pc = "loaded"
    /\ call' = [fn |-> "Map::load_from_wad", arg |-> map_name,
                ret |-> Map_load_from_wad(wad, map_name)]
    /\ UNCHANGED << stream, pos, pc, num_lumps, dir_offset, lumps, io_log,
                    wad_result, wad, bsp, trav >>

BspLoadFromWad(map_name) ==
    /\ pc = "loaded"
    /\ call' = [fn |-> "BspTree::load_from_wad", arg |-> map_name,
                ret |-> BspTree_load_from_wad(wad, map_name)]
    /\ bsp' = IF BspTree_load_from_wad(wad, map_name).status = "Ok"
              THEN << BspTree_load_from_wad(wad, map_name).value >>
              ELSE bsp
    /\ UNCHANGED << stream, pos, pc, num_lumps, dir_offset, lumps, io_log,
                    wad_result, wad, trav >>

----------------------------------------------------------------------------
(* The state machine *)

\* no renderer at work
RendererIdle ==
    /\ rpc = "idle"
    /\ scene = <<>>
    /\ canvas = <<>>
    /\ column = 0
    /\ ray = <<>>
    /\ hits = <<>>
    /\ sprites = <<>>
    /\ sorted_sprites = <<>>
    /\ sprite_log = <<>>

\* no container being loaded
LoaderIdle ==
    /\ stream = <<>>
    /\ pos = 0
    /\ num_lumps = 0
    /\ dir_offset = 0
    /\ lumps = <<>>
    /\ io_log = <<>>
    /\ wad_result = "none"
    /\ wad = <<>>
    /\ bsp = <<>>
    /\ trav = <<>>

Init ==
    /\ RendererIdle
    /\ stream \in Streams
    /\ pos = 0
    /\ pc = "load_signature"
    /\ num_lumps = 0
    /\ dir_offset = 0
    /\ lumps = <<>>
    /\ io_log = <<>>
    /\ wad_result = "none"
    /\ wad = <<>>
    /\ call = NoCall
    /\ bsp = <<>>
    /\ trav = <<>>

Next ==
    \/ LoadSignature /\ UNCHANGED rendererVars
    \/ LoadHeader /\ UNCHANGED rendererVars
    \/ LoadEntry /\ UNCHANGED rendererVars
    \/ LoadReturn /\ UNCHANGED rendererVars
    \/ \E name \in LookupNames : FindLump(name) /\ UNCHANGED rendererVars
    \/ \E name \in MapNames : MapLoadFromWad(name) /\ UNCHANGED rendererVars
    \/ \E name \in MapNames : BspLoadFromWad(name) /\ UNCHANGED rendererVars
    \/ \E p \in Players, r \in StartReferences :
          TraverseBsp(p[1], p[2], r) /\ UNCHANGED rendererVars
    \/ TraverseEntry /\ UNCHANGED rendererVars
    \/ TraverseFar /\ UNCHANGED rendererVars
    \/ TraverseReturn /\ UNCHANGED rendererVars

Spec == Init /\ [][Next]_vars

----------------------------------------------------------------------------
(* BspTree::point_on_side on its own: a partition line, a point and the    *)
(* mirror image of the point across the line are drawn, and the function   *)
(* is applied to the point and then to its mirror image                    *)

\* largest coordinate of a classified point
MaxCoordinate == 3

Coordinates == (0 - MaxCoordinate)..MaxCoordinate

PartitionLine(x, y, dx, dy) == [x |-> x, y |-> y, dx |-> dx, dy |-> dy]

\* vertical, horizontal, diagonal and skew lines, through the origin and not
PartitionLines ==
    { PartitionLine(0, 0, 0, 1), PartitionLine(0, 0, 1, 0),
      PartitionLine(-5, 5, 1, -1), PartitionLine(2, 3, 1, 1),
      PartitionLine(1, -2, 0, -3), PartitionLine(0, 0, 2, 1),
      PartitionLine(1, 1, -3, 4) }

\* whether the mirror image of (x, y) across the line has whole coordinates
MirrorIsWhole(x, y, line) ==
    LET t  == 2 * ((x - line.x) * line.dx + (y - line.y) * line.dy)
        dd == line.dx * line.dx + line.dy * line.dy
    IN  (t * line.dx) % dd = 0 /\ (t * line.dy) % dd = 0

\* the mirror image of (x, y) across the line: o + 2 proj_d(v) - v for
\* v = (x, y) - o
Mirror(x, y, line) ==
    LET t  == 2 * ((x - line.x) * line.dx + (y - line.y) * line.dy)
        dd == line.dx * line.dx + line.dy * line.dy
    IN  << line.x + (t * line.dx) \div dd - (x - line.x),
           line.y + (t * line.dy) \div dd - (y - line.y) >>

GeometryInit ==
    /\ RendererIdle
    /\ LoaderIdle
    /\ pc = "point_on_side"
    /\ \E line \in PartitionLines, x \in Coordinates, y \in Coordinates :
          /\ MirrorIsWhole(x, y, line)
          /\ call = [fn |-> "point_on_side", line |-> line,
                     points |-> << << x, y >>, Mirror(x, y, line) >>,
                     ret |-> <<>>]

\* the next point is classified
PointOnSide ==
    /\ pc = "point_on_side"
    /\ Len(call.ret) < Len(call.points)
    /\ LET point == call.points[Len(call.ret) + 1] IN
       call' = [call EXCEPT
                  !.ret = Append(@, point_on_side(point[1], point[2], call.line))]
    /\ UNCHANGED << stream, pos, pc, num_lumps, dir_offset, lumps, io_log,
                    wad_result, wad, bsp, trav >>
    /\ UNCHANGED rendererVars

GeometryNext == PointOnSide

GeometrySpec == GeometryInit /\ [][GeometryNext]_vars

----------------------------------------------------------------------------
(* Renderer::render_frame with the wall pass it runs (render_3d_view,      *)
(* cast_ray, draw_wall_slice), on a screen scaled down from 800 x 600.     *)
(* The pixels are kept by what painted them last: "stale" (the frame       *)
(* before), "black" (canvas.clear), "ceiling" and "floor"                  *)
(* (render_horizontal_plane), "wall" (draw_wall_slice).                    *)

\* Renderer.screen_width and Renderer.screen_height of the checked renderer
ScreenWidth == 4

ScreenHeight == 4

\* line 144: while distance < 1000.0
MaxViewDistance == 1000

\* line 142: let step_size = 1.0
StepSize == 1

\* what an f64 infinity becomes under "as i32"
I32Max == 2147483647

Columns == 0..(ScreenWidth - 1)

Rows == 0..(ScreenHeight - 1)

\* the integer division of Rust, which rounds towards zero
TruncDiv(a, b) == IF a >= 0 THEN a \div b ELSE 0 - ((0 - a) \div b)

Blank(colour) == [x \in Columns |-> [y \in Rows |-> colour]]

\* lines 36-37: set_draw_color(0, 0, 0), clear()
clear(cv) == Blank("black")

\* lines 48-82: every pixel of a row above the midline is painted as
\* ceiling, every pixel of another row as floor
render_floor_ceiling(cv) ==
    LET half_height == TruncDiv(ScreenHeight, 2)
    IN  [x \in Columns |->
            [y \in Rows |-> IF y < half_height THEN "ceiling" ELSE "floor"]]

\* the loop going on at the view distance itself
Mutant_InViewDistance(distance) == distance <= MaxViewDistance

\* line 144: the loop condition of cast_ray
InViewDistance(distance) == distance < MaxViewDistance

\* line 149: whether the sample point at this distance along the ray of a
\* column is inside a solid wall of the map; a map is kept as the distances
\* at which that is so, column by column
check_wall_collision(map, x, distance) == distance \in map[x + 1]

\* line 166: (screen_height as f64 / hit.distance * 100.0) as i32; a
\* division by 0.0 is infinite and saturates. For the distances at which
\* the checked maps have walls the f64 product truncates to the integer
\* quotient.
wall_height(distance) ==
    IF distance = 0 THEN I32Max ELSE (ScreenHeight * 100) \div distance

\* lines 164-185
draw_wall_slice(cv, screen_x, distance) ==
    LET wall_top    == TruncDiv(ScreenHeight - wall_height(distance), 2)
        wall_bottom == wall_top + wall_height(distance)
        from == IF wall_top > 0 THEN wall_top ELSE 0
        to   == IF wall_bottom < ScreenHeight THEN wall_bottom ELSE ScreenHeight
    IN  [cv EXCEPT ![screen_x] =
            [y \in Rows |-> IF from <= y /\ y < to THEN "wall" ELSE cv[screen_x][y]]]

\* lines 36-42: the screen is cleared; with an active map render_3d_view
\* is entered, without one the frame is presented as it is
RenderFrame ==
    /\ rpc = "render_frame"
    /\ canvas' = clear(canvas)
    /\ IF scene.current_map # <<>>
       THEN rpc' = "render_3d_view" /\ column' = 0
       ELSE rpc' = "present" /\ UNCHANGED column
    /\ UNCHANGED << scene, ray, hits, sprites, sorted_sprites, sprite_log >>
    /\ UNCHANGED loaderVars

\* lines 126-129: the next column, if there is one, casts its ray
Render3dView ==
    /\ rpc = "render_3d_view"
    /\ IF column < ScreenWidth
       THEN /\ rpc' = "cast_ray"
            /\ ray' = [distance |-> 0, tested |-> <<>>]
       ELSE /\ rpc' = "present"
            /\ UNCHANGED ray
    /\ UNCHANGED << scene, canvas, column, hits, sprites, sorted_sprites,
                    sprite_log >>
    /\ UNCHANGED loaderVars

\* lines 144-161, one turn of the loop or its end, and lines 129-131 when
\* the call returns: a hit has its wall slice drawn
CastRay ==
    /\ rpc = "cast_ray"
    /\ IF InViewDistance(ray.distance)
       THEN LET tested == Append(ray.tested, ray.distance) IN
            IF check_wall_collision(scene.current_map[1], column, ray.distance)
            THEN /\ hits' = Append(hits, [hit |-> << ray.distance >>,
                                          tested |-> tested])
                 /\ canvas' = draw_wall_slice(canvas, column, ray.distance)
                 /\ column' = column + 1
                 /\ ray' = <<>>
                 /\ rpc' = "render_3d_view"
            ELSE /\ ray' = [distance |-> ray.distance + StepSize,
                            tested |-> tested]
                 /\ UNCHANGED << rpc, hits, canvas, column >>
       ELSE /\ hits' = Append(hits, [hit |-> <<>>, tested |-> ray.tested])
            /\ column' = column + 1
            /\ ray' = <<>>
            /\ rpc' = "render_3d_view"
            /\ UNCHANGED canvas
    /\ UNCHANGED << scene, sprites, sorted_sprites, sprite_log >>
    /\ UNCHANGED loaderVars

\* line 44: canvas.present()
Present ==
    /\ rpc = "present"
    /\ rpc' = "presented"
    /\ UNCHANGED << scene, canvas, column, ray, hits, sprites, sorted_sprites,
                    sprite_log >>
    /\ UNCHANGED loaderVars

\* the checked maps: no wall in any column
OpenMap == [k \in 1..ScreenWidth |-> {}]

\* a wall in every column, k steps away in column k (none away in column 0)
NearMap == [k \in 1..ScreenWidth |-> {k - 1}]

\* a wall at the last sampled distance, walls beyond the view distance
\* only, two walls one behind the other, and a wall far enough away not to
\* fill the column
MixedMap ==
    [k \in 1..ScreenWidth |->
        CASE k % 4 = 1 -> {999}
          [] k % 4 = 2 -> {1000, 1200}
          [] k % 4 = 3 -> {3, 7}
          [] OTHER     -> {200, 500}]

Scenes ==
    {[current_map |-> <<>>]}
        \cup {[current_map |-> << m >>] : m \in {OpenMap, NearMap, MixedMap}}

----------------------------------------------------------------------------
(* Renderer::render_sprites. An f64 is kept as << v >> for the whole       *)
(* number v and as << >> for a NaN; a distance is kept by its square, which *)
(* orders the whole-number positions checked here as their square roots do. *)

\* most sprites in a checked list
MaxSprites == 3

Num(v) == << v >>

NaN == << >>

\* the operands of an f64 operation of which none is a NaN
Finite(operands) == \A k \in 1..Len(operands) : operands[k] # NaN

\* lines 88-89: (sprite.x - player.x).powi(2) + (sprite.y - player.y).powi(2),
\* the square of the distance the code compares
distance2(sprite, player) ==
    IF Finite(<< sprite.x, sprite.y, player.x, player.y >>)
    THEN Num((sprite.x[1] - player.x[1]) * (sprite.x[1] - player.x[1])
             + (sprite.y[1] - player.y[1]) * (sprite.y[1] - player.y[1]))
    ELSE NaN

\* f64::partial_cmp: None (<< >>) when an operand is a NaN
partial_cmp(l, r) ==
    IF ~Finite(<< l, r >>) THEN << >>
    ELSE IF l[1] < r[1] THEN << "Less" >>
    ELSE IF l[1] > r[1] THEN << "Greater" >>
    ELSE << "Equal" >>

\* the distances compared the other way round
Mutant_compare_sprites(a, b, player) ==
    partial_cmp(distance2(a[2], player), distance2(b[2], player))

\* lines 87-90: the closure handed to sort_by, before its unwrap()
compare_sprites(a, b, player) ==
    LET dist_a == distance2(a[2], player)
        dist_b == distance2(b[2], player)
    IN  partial_cmp(dist_b, dist_a)

\* slice::sort_by on a short slice: an insertion sort, each element moved
\* from the tail of the sorted part in front of those it compares Less
\* with; line 90: a comparison that is None panics in unwrap()
RECURSIVE InsertTail(_, _, _)
InsertTail(sorted, e, player) ==
    IF sorted = <<>> THEN [panic |-> FALSE, v |-> << e >>]
    ELSE LET last == sorted[Len(sorted)]
             ordering == compare_sprites(e, last, player)
         IN  IF ordering = << >> THEN [panic |-> TRUE, v |-> <<>>]
             ELSE IF ordering = << "Less" >>
             THEN LET front == InsertTail(SubSeq(sorted, 1, Len(sorted) - 1),
                                          e, player)
                  IN  IF front.panic THEN front
                      ELSE [panic |-> FALSE, v |-> Append(front.v, last)]
             ELSE [panic |-> FALSE, v |-> Append(sorted, e)]

RECURSIVE SortFrom(_, _, _)
SortFrom(sorted, rest, player) ==
    IF rest = <<>> THEN [panic |-> FALSE, v |-> sorted]
    ELSE LET inserted == InsertTail(sorted, Head(rest), player)
         IN  IF inserted.panic THEN inserted
             ELSE SortFrom(inserted.v, Tail(rest), player)

sort_by(v, player) == SortFrom(<<>>, v, player)

\* line 86: sprites.iter().enumerate().collect()
enumerate(v) == [k \in 1..Len(v) |-> << k - 1, v[k] >>]

\* lines 102-110 and 115-116: straight ahead of a viewer of angle 0 atan2 and
\* tan are 0.0 and screen_x is the middle of the screen; straight to the
\* left or right atan2 is +-pi/2, whose f64 tangent is +-1.6e16, and
\* screen_x is far off the screen; with a NaN coordinate screen_x is a NaN,
\* which is in no range. Column << >> is a sprite that is not drawn.
screen_x(sprite, player) ==
    LET dx == sprite.x[1] - player.x[1]
        dy == sprite.y[1] - player.y[1]
    IN  CASE ~Finite(<< sprite.x, sprite.y >>) -> << >>
          [] Finite(<< sprite.x, sprite.y >>) /\ dy = 0 /\ dx >= 0
                -> << TruncDiv(ScreenWidth, 2) >>
          [] Finite(<< sprite.x, sprite.y >>) /\ dx = 0 /\ dy # 0 -> << >>

\* the viewer of the checked sprite passes: at the origin, looking along x
Viewer == [x |-> Num(0), y |-> Num(0), angle |-> 0]

\* lines 86-91: the sort, which panics or leaves the sorted list
RenderSprites ==
    /\ rpc = "render_sprites"
    /\ LET sorted == sort_by(enumerate(sprites), Viewer) IN
       IF sorted.panic
       THEN rpc' = "panicked" /\ UNCHANGED sorted_sprites
       ELSE rpc' = "render_sprite" /\ sorted_sprites' = sorted.v
    /\ UNCHANGED << scene, canvas, column, ray, hits, sprites, sprite_log >>
    /\ UNCHANGED loaderVars

\* lines 93-95 with render_sprite (lines 100-120): the next sprite of the
\* sorted list is rendered, its column drawn if it is on the screen
RenderSprite ==
    /\ rpc = "render_sprite"
    /\ IF sorted_sprites = <<>>
       THEN rpc' = "sprites_done" /\ UNCHANGED << sorted_sprites, sprite_log >>
       ELSE LET index  == Head(sorted_sprites)[1]
                sprite == Head(sorted_sprites)[2]
            IN  /\ sprite_log' = Append(sprite_log,
                                        [index |-> index, sprite |-> sprite,
                                         drawn |-> screen_x(sprite, Viewer)])
                /\ sorted_sprites' = Tail(sorted_sprites)
                /\ UNCHANGED rpc
    /\ UNCHANGED << scene, canvas, column, ray, hits, sprites >>
    /\ UNCHANGED loaderVars

Sprite(x, y) == [x |-> x, y |-> y]

\* sprites ahead of the viewer and beside it, two of them equally far away,
\* and one whose x is a NaN
SpritePlaces ==
    { Sprite(Num(1), Num(0)), Sprite(Num(3), Num(0)), Sprite(Num(2), Num(0)),
      Sprite(Num(0), Num(2)), Sprite(Num(0), Num(-4)), Sprite(NaN, Num(1)) }

SpriteLists ==
    UNION { { l \in [1..n -> SpritePlaces] :
                \A i, j \in 1..n : l[i] = l[j] => i = j } : n \in 0..MaxSprites }

RenderInit ==
    /\ LoaderIdle
    /\ pc = "idle"
    /\ call = NoCall
    /\ canvas = Blank("stale")
    /\ column = 0
    /\ ray = <<>>
    /\ hits = <<>>
    /\ sorted_sprites = <<>>
    /\ sprite_log = <<>>
    /\ \/ rpc = "render_frame" /\ scene \in Scenes /\ sprites = <<>>
       \/ /\ rpc = "render_sprites"
          /\ scene = [current_map |-> <<>>]
          /\ sprites \in SpriteLists

RenderNext ==
    \/ RenderFrame
    \/ Render3dView
    \/ CastRay
    \/ Present
    \/ RenderSprites
    \/ RenderSprite

RenderSpec == RenderInit /\ [][RenderNext]_vars

----------------------------------------------------------------------------
(* What the stream says, read independently of the loader *)

Finished == pc \in {"failed", "loaded"}

U32At(s, p) == read_u32(SubSeq(s, p + 1, p + 4))

Slice(s, p, k) == [j \in 1..k |-> s[p + j]]

HeaderCount == U32At(stream, 4)

HeaderDirOffset == U32At(stream, 8)

Min(S) == CHOOSE x \in S : \A y \in S : x <= y

\* the first NUL of a field (1-based), Len + 1 when it has none
FirstNul(f) == Min({k \in 1..Len(f) : f[k] = NUL} \cup {Len(f) + 1})

----------------------------------------------------------------------------
(* C1 *)

HasBadSignature ==
    /\ Len(stream) >= 4
    /\ Slice(stream, 0, 4) \notin {IWAD, PWAD}

\* C1: on a stream of at least 4 bytes whose first 4 bytes are neither
\* "IWAD" nor "PWAD", load ends with the InvalidSignature error and no
\* WadFile, whatever follows, and the only thing it has asked of the reader
\* is the 4-byte read of the signature.
C1_BadSignatureRejected ==
    (HasBadSignature /\ pc # "load_signature")
        => /\ pc = "failed"
           /\ wad_result = "InvalidSignature"
           /\ wad = <<>>
           /\ lumps = <<>>
           /\ io_log = << RD(0, 4) >>

\* an "XWAD" stream with a whole well-formed container behind the magic
C1_Witness ==
    /\ Len(stream) > 12
    /\ Slice(stream, 0, 4) = << Chr("X"), Chr("W"), Chr("A"), Chr("D") >>
    /\ HeaderCount > 0
    /\ wad_result = "InvalidSignature"

----------------------------------------------------------------------------
(* C2 *)

Matches(name) == {i \in 1..Len(wad) : wad[i].name = name}

\* C2: find_lump(n) on a loaded container returns the lump of the smallest
\* index whose name is n, and None exactly when no lump has that name.
C2_FindFirstMatch ==
    (call.fn = "find_lump")
        => IF Matches(call.arg) = {}
           THEN call.ret.status = "None"
           ELSE /\ call.ret.status = "Some"
                /\ call.ret.index + 1 = Min(Matches(call.arg))
                /\ call.ret.lump = wad[Min(Matches(call.arg))]

\* two lumps of the looked-up name with different data: the first is returned
C2_Witness ==
    /\ call.fn = "find_lump"
    /\ Cardinality(Matches(call.arg)) >= 2
    /\ \E i, j \in Matches(call.arg) : wad[i].data # wad[j].data
    /\ call.ret.status = "Some"
    /\ call.ret.index = 0

----------------------------------------------------------------------------
(* C3 *)

\* the load's reads of directory entry i (0-based) in io_log: three reads, the
\* seek to the data, the data read, the seek back
EntryLog(i) == SubSeq(io_log, 5 + 6 * i, 10 + 6 * i)

\* a successful load returned HeaderCount lumps, read entry i at
\* directory_offset + stride * i, and lump i is the data bytes that entry names
LoadedFromDirectory(stride) ==
    /\ Len(wad) = HeaderCount
    /\ \A i \in 0..(HeaderCount - 1) :
          LET e == HeaderDirOffset + stride * i IN
          /\ EntryLog(i)[1] = RD(e, 4)
          /\ EntryLog(i)[2] = RD(e + 4, 4)
          /\ EntryLog(i)[3] = RD(e + 8, 8)
          /\ e + 16 <= Len(stream)
          /\ LET off == U32At(stream, e)
                 size == U32At(stream, e + 4)
             IN  /\ EntryLog(i)[5] = RD(off, size)
                 /\ off + size <= Len(stream) \/ size = 0
                 /\ wad[i + 1].data =
                        (IF size = 0 THEN <<>> ELSE Slice(stream, off, size))

\* C3 as stated: the i-th directory entry is read from directory_offset + 12*i
C3_Original_Stride12 ==
    (wad_result = "Ok") => LoadedFromDirectory(12)

\* C3 (amended): a successful load yields exactly lump_count lumps in
\* directory order, lump i holding the bytes stream[offset_i, offset_i +
\* size_i) of entry i wherever the data lies, and entry i is read from
\* directory_offset + 16*i whatever seeks the earlier lumps' data needed.
C3_LoadedInDirectoryOrder ==
    (wad_result = "Ok") => LoadedFromDirectory(16)

\* two lumps loaded whose data lies before the directory, the second one's
\* data in front of the first one's
C3_Witness ==
    /\ wad_result = "Ok"
    /\ Len(wad) >= 2
    /\ U32At(stream, HeaderDirOffset) < HeaderDirOffset
    /\ U32At(stream, HeaderDirOffset + 16) < U32At(stream, HeaderDirOffset)
    /\ wad[1].data # wad[2].data

----------------------------------------------------------------------------
(* C4 *)

PastEnd(o) == o.at + o.len > Len(stream)

\* C4 as stated: any seek target or read extent beyond the end of the stream,
\* a read of 0 bytes included, makes the load fail with an I/O error
C4_Original_AnySeekOrRead ==
    (Finished /\ \E k \in 1..Len(io_log) : PastEnd(io_log[k]))
        => wad_result = "Io"

\* C4 (amended): the load fails with an I/O error, and returns no WadFile,
\* exactly when one of its reads of one byte or more (signature, header
\* field, directory entry field, lump data) extends beyond the end of the
\* stream; a seek beyond the end, and a read of 0 bytes there, do not fail.
C4_ReadPastEndFails ==
    Finished =>
        /\ (wad_result = "Io") <=>
              \E k \in 1..Len(io_log) :
                  /\ io_log[k].op = "read"
                  /\ io_log[k].len > 0
                  /\ PastEnd(io_log[k])
        /\ (wad_result = "Io") => (pc = "failed" /\ wad = <<>> /\ lumps = <<>>)

\* a load that failed on the data of its second lump, the first being read
C4_Witness ==
    /\ wad_result = "Io"
    /\ Len(io_log) = 4 + 6 + 5
    /\ io_log[Len(io_log)].len > 0
    /\ io_log[Len(io_log)].at < Len(stream)

----------------------------------------------------------------------------
(* C5 *)

\* C5: every loaded lump's name is the text of the bytes of its 8-byte name
\* field that precede the field's first NUL (all 8 when it has none).
C5_Original_NameStopsAtFirstNul ==
    (wad_result = "Ok") =>
        \A i \in 1..Len(wad) :
            LET field == Slice(stream, HeaderDirOffset + 16 * (i - 1) + 8, 8)
            IN  wad[i].name = from_utf8_lossy(SubSeq(field, 1, FirstNul(field) - 1))

----------------------------------------------------------------------------
(* What a lump holds, read record by record independently of the parsers *)

IsMapLoad == call.fn = "Map::load_from_wad"

IsBspLoad == call.fn = "BspTree::load_from_wad"

\* 0-based index of the first lump called like the argument of the call
FirstNamed == Min(Matches(call.arg)) - 1

\* the data of the k-th lump behind that one
Behind(k) == wad[FirstNamed + k + 1].data

\* data cut into Len(data) \div size records of `size` bytes, each decoded
Chunks(data, size, fields) ==
    [r \in 1..(Len(data) \div size) |->
        ReadFields(Slice(data, (r - 1) * size, size), 0, fields, <<>>).values]

NodeChunks(data) ==
    [r \in 1..(Len(data) \div 28) |-> BspNode(Chunks(data, 28, NodeFields)[r])]

----------------------------------------------------------------------------
(* C6 *)

\* C6: Map::load_from_wad fails with "Map not found", no lump having been
\* handed to a parser, exactly when no lump is named like map_name;
\* otherwise its marker index is that of the first lump of that name.
C6_MarkerIsFirstMatch ==
    IsMapLoad =>
        /\ (call.ret.status = "Err" /\ call.ret.error = "Map not found")
              <=> (Matches(call.arg) = {})
        /\ (Matches(call.arg) = {}) => (call.ret.decoded = <<>>)
        /\ (Matches(call.arg) # {}) => (call.ret.map_index = FirstNamed)

\* a second lump called like the marker lies behind it, and a lump whose name
\* differs in case only in front of it
C6_Witness ==
    /\ IsMapLoad
    /\ Cardinality(Matches(call.arg)) = 2
    /\ call.ret.status = "Ok"
    /\ call.ret.map_index = 1

----------------------------------------------------------------------------
(* C7 *)

\* C7: with m the index of the first lump called map_name, a map that loads
\* holds the things of lump m+1, the linedefs of m+2, the sidedefs of m+3,
\* the vertices of m+4 and the sectors of m+8, and a BSP tree that loads holds
\* the segs of m+5, the subsectors of m+6 and the nodes of m+7; no other lump
\* is handed to a parser, whatever the lumps are called.
C7_PositionalLumps ==
    /\ (IsMapLoad \/ IsBspLoad) =>
          \A k \in 1..Len(call.ret.decoded) :
              call.ret.decoded[k] \in
                  IF IsMapLoad
                  THEN { << "things", FirstNamed + 1 >>,
                         << "linedefs", FirstNamed + 2 >>,
                         << "sidedefs", FirstNamed + 3 >>,
                         << "vertices", FirstNamed + 4 >>,
                         << "sectors", FirstNamed + 8 >> }
                  ELSE { << "segs", FirstNamed + 5 >>,
                         << "subsectors", FirstNamed + 6 >>,
                         << "nodes", FirstNamed + 7 >> }
    /\ (IsMapLoad /\ call.ret.status = "Ok") =>
          /\ call.ret.value.things = Chunks(Behind(1), 10, ThingFields)
          /\ call.ret.value.linedefs = Chunks(Behind(2), 14, LinedefFields)
          /\ call.ret.value.sidedefs = Chunks(Behind(3), 30, SidedefFields)
          /\ call.ret.value.vertices = Chunks(Behind(4), 4, VertexFields)
          /\ call.ret.value.sectors = Chunks(Behind(8), 26, SectorFields)
          /\ Len(call.ret.decoded) = 5
    /\ (IsBspLoad /\ call.ret.status = "Ok") =>
          /\ call.ret.value.segs = Chunks(Behind(5), 12, SegFields)
          /\ call.ret.value.subsectors = Chunks(Behind(6), 4, SubsectorFields)
          /\ call.ret.value.nodes = NodeChunks(Behind(7))
          /\ Len(call.ret.decoded) = 3

\* a map loaded from behind a marker at index 1, two things and five
\* vertices in it
C7_Witness ==
    /\ IsMapLoad
    /\ call.ret.status = "Ok"
    /\ call.ret.map_index = 1
    /\ Len(call.ret.value.things) = 2
    /\ Len(call.ret.value.vertices) = 5
    /\ Len(call.ret.value.sectors) = 1

----------------------------------------------------------------------------
(* C8 *)

Whole(k, size) == Len(Behind(k)) % size = 0

\* C8: when the lumps a loader indexes all exist, it succeeds exactly when
\* each one's length is a multiple of its record size (vertex 4, linedef 14,
\* sidedef 30, sector 26, thing 10, node 28, subsector 4, seg 12), and then
\* holds exactly length / size records of each, in lump order; otherwise the
\* whole load returns the read error and no bundle.
C8_WholeRecordsOrError ==
    /\ (IsMapLoad /\ Matches(call.arg) # {} /\ FirstNamed + 8 < Len(wad)) =>
          IF Whole(4, 4) /\ Whole(2, 14) /\ Whole(3, 30) /\ Whole(8, 26)
                /\ Whole(1, 10)
          THEN /\ call.ret.status = "Ok"
               /\ Len(call.ret.value.vertices) = Len(Behind(4)) \div 4
               /\ Len(call.ret.value.linedefs) = Len(Behind(2)) \div 14
               /\ Len(call.ret.value.sidedefs) = Len(Behind(3)) \div 30
               /\ Len(call.ret.value.sectors) = Len(Behind(8)) \div 26
               /\ Len(call.ret.value.things) = Len(Behind(1)) \div 10
               /\ call.ret.value.vertices = Chunks(Behind(4), 4, VertexFields)
               /\ call.ret.value.sidedefs = Chunks(Behind(3), 30, SidedefFields)
          ELSE /\ call.ret.status = "Err"
               /\ call.ret.error = "UnexpectedEof"
               /\ "value" \notin DOMAIN call.ret
    /\ (IsBspLoad /\ Matches(call.arg) # {} /\ FirstNamed + 7 < Len(wad)) =>
          IF Whole(7, 28) /\ Whole(6, 4) /\ Whole(5, 12)
          THEN /\ call.ret.status = "Ok"
               /\ Len(call.ret.value.nodes) = Len(Behind(7)) \div 28
               /\ Len(call.ret.value.subsectors) = Len(Behind(6)) \div 4
               /\ Len(call.ret.value.segs) = Len(Behind(5)) \div 12
               /\ call.ret.value.subsectors = Chunks(Behind(6), 4, SubsectorFields)
          ELSE /\ call.ret.status = "Err"
               /\ call.ret.error = "UnexpectedEof"
               /\ "value" \notin DOMAIN call.ret

\* a sidedef lump of one record and 29 bytes more makes the map load fail
C8_Witness ==
    /\ IsMapLoad
    /\ Matches(call.arg) # {}
    /\ FirstNamed + 8 < Len(wad)
    /\ Len(Behind(3)) = 59
    /\ Whole(4, 4) /\ Len(Behind(4)) > 0
    /\ call.ret.status = "Err"
    /\ call.ret.error = "UnexpectedEof"

----------------------------------------------------------------------------
(* C9 *)

\* C9: every failure of Map::load_from_wad and BspTree::load_from_wad is an
\* error result: the call returns Ok or Err, also when fewer than 8 lumps lie
\* behind the marker, and never panics.
C9_Original_FailuresAreErrors ==
    (IsMapLoad \/ IsBspLoad) => call.ret.status \in {"Ok", "Err"}

----------------------------------------------------------------------------
(* C10 *)

\* the references traverse_bsp was entered with in the traversal under way
\* or, when none is, in the one that returned or panicked last
Visits ==
    IF trav # <<>> THEN trav.visits
    ELSE IF call.fn = "traverse_bsp" THEN call.visits
    ELSE <<>>

RECURSIVE Yields(_)
Yields(visits) ==
    IF visits = <<>> THEN <<>> ELSE Head(visits).yielded \o Yields(Tail(visits))

\* C10: a reference r (16 bits) is treated as a leaf exactly when its bit
\* 0x8000 is set, that is r >= 32768; a leaf yields the one subsector index
\* r - 32768 and does not index the node array, which is only ever indexed
\* with a reference below 32768; what a traversal returns is what its leaves
\* yielded, in the order they were reached.
C10_LeafIffHighBit ==
    /\ \A k \in 1..Len(Visits) :
          LET v == Visits[k] IN
          /\ v.node_index \in 0..65535
          /\ v.leaf <=> (v.node_index >= 32768)
          /\ v.leaf => (v.yielded = << v.node_index - 32768 >> /\ ~v.indexed)
          /\ v.indexed => (v.node_index < 32768)
          /\ ~v.leaf => (v.indexed /\ v.yielded = <<>>)
    /\ (call.fn = "traverse_bsp" /\ call.ret.status = "Ok")
          => call.ret.value = Yields(call.visits)

\* a traversal from node 0 that went through a second node and returned
\* three subsectors
C10_Witness ==
    /\ call.fn = "traverse_bsp"
    /\ call.ret.status = "Ok"
    /\ call.arg[3] = 0
    /\ Len(call.ret.value) = 3
    /\ \E k \in 1..Len(call.visits) : call.visits[k].node_index = 1
    /\ \E k \in 1..Len(call.visits) : call.visits[k].node_index = 32770

----------------------------------------------------------------------------
(* C11 *)

\* the player and the start reference of the traversal Visits is the log of
TraversalArg ==
    IF trav # <<>> THEN << trav.player_x, trav.player_y, trav.root >>
    ELSE call.arg

\* the tree that traversal walks
TraversalTree == IF trav # <<>> THEN trav.self ELSE bsp[1]

\* the cross product of (viewer - node.origin) with (node.dx, node.dy)
Cross(px, py, node) == (px - node.x) * node.dy - (py - node.y) * node.dx

\* the squared distance from the viewer to the corner of a box that the
\* visibility test measures
CornerDistance2(px, py, bbox) ==
    (bbox[3] - px) * (bbox[3] - px) + (bbox[4] - py) * (bbox[4] - py)

\* the subsectors under a reference, those of the near child of a node in
\* front of those of its far child, the far child left out when its box is
\* 1000 units or more away
RECURSIVE NearToFar(_, _, _, _)
NearToFar(tree, px, py, ref) ==
    IF ref >= 32768 THEN << ref - 32768 >>
    ELSE LET node == tree.nodes[ref + 1]
             right_first == Cross(px, py, node) > 0
             near == IF right_first THEN node.right_child ELSE node.left_child
             far  == IF right_first THEN node.left_child ELSE node.right_child
             box  == IF right_first THEN node.bbox_left ELSE node.bbox_right
         IN  NearToFar(tree, px, py, near)
                \o (IF CornerDistance2(px, py, box) < 1000000
                    THEN NearToFar(tree, px, py, far) ELSE <<>>)

\* C11: the child of a visited node that is recursed into first is its
\* right child when the cross product of (viewer - node.origin) with
\* (node.dx, node.dy) is positive and its left child when it is zero or
\* negative, and in the sequence a traversal returns the subsectors of that
\* near child come in front of those of the far child, at every node.
C11_NearBeforeFar ==
    /\ \A k \in 1..Len(Visits) :
          LET v == Visits[k] IN
          v.calls # <<>> =>
             LET node == TraversalTree.nodes[v.node_index + 1]
                 cross == Cross(TraversalArg[1], TraversalArg[2], node)
             IN  v.calls[1] = IF cross > 0
                              THEN [child |-> "right", ref |-> node.right_child]
                              ELSE [child |-> "left", ref |-> node.left_child]
    /\ (call.fn = "traverse_bsp" /\ call.ret.status = "Ok")
          => call.ret.value
                = NearToFar(bsp[1], call.arg[1], call.arg[2], call.arg[3])

\* a viewer left of node 0 and right of node 1: subsector 2 of the left
\* child of node 0 in front of those of node 1, and of these the right
\* child's 0 in front of the left child's 1
C11_Witness ==
    /\ call.fn = "traverse_bsp"
    /\ call.ret.status = "Ok"
    /\ call.arg = << -5, 0, 0 >>
    /\ call.ret.value = << 2, 0, 1 >>
    /\ Len(bsp[1].nodes) = 2

----------------------------------------------------------------------------
(* C12 *)

\* C12: a traversal never works on a node while an earlier call on the same
\* node is still open: a child reference that leads back to an ancestor is
\* reported as an error, not recursed into, so that the calls of a traversal
\* cannot nest without bound.
C12_Original_CycleReported ==
    trav # <<>> =>
        \A i, j \in 1..Len(trav.frames) :
            (i < j /\ trav.frames[i].node_index = trav.frames[j].node_index)
                => trav.frames[j].at = "entry"

----------------------------------------------------------------------------
(* C13 *)

\* a child reference or start reference that names a subsector or a node
\* the tree has
ValidReference(tree, ref) ==
    IF ref >= 32768 THEN ref - 32768 < Len(tree.subsectors)
    ELSE ref < Len(tree.nodes)

\* C13: in every tree a load returned, a child reference with bit 0x8000
\* set names, the bit cleared, a subsector of the tree, and one with the bit
\* clear names a node of the tree; so a traversal entered with such a
\* reference yields indices of subsectors of the tree only and never indexes
\* the node array out of range.
C13_Original_ReferencesValid ==
    /\ bsp # <<>> =>
          \A k \in 1..Len(bsp[1].nodes) :
              /\ ValidReference(bsp[1], bsp[1].nodes[k].right_child)
              /\ ValidReference(bsp[1], bsp[1].nodes[k].left_child)
    /\ (call.fn = "traverse_bsp" /\ ValidReference(bsp[1], call.arg[3]))
          => /\ call.ret.status # "panic"
             /\ \A k \in 1..Len(call.visits) :
                   \A j \in 1..Len(call.visits[k].yielded) :
                       call.visits[k].yielded[j] < Len(bsp[1].subsectors)

----------------------------------------------------------------------------
(* C18 *)

OtherChild(child) == IF child = "left" THEN "right" ELSE "left"

\* the reference and the box a node holds for one of its two children
ChildRef(node, child) ==
    IF child = "left" THEN node.left_child ELSE node.right_child

ChildBox(node, child) ==
    IF child = "left" THEN node.bbox_left ELSE node.bbox_right

RECURSIVE CallCount(_)
CallCount(visits) ==
    IF visits = <<>> THEN 0 ELSE Len(Head(visits).calls) + CallCount(Tail(visits))

\* the calls of the traversal that were made and not entered yet
Entering ==
    IF trav # <<>> /\ Top.at = "entry" THEN 1 ELSE 0

\* C18: a visited node recurses into one child first, unconditionally, and
\* into its other child exactly when the corner of that other child's own
\* box (bbox_right for the right child, bbox_left for the left child) is
\* less than 1000 units from the viewer; it recurses into no child a second
\* time, and apart from the start reference nothing is visited but what a
\* visited node recursed into.
C18_FarChildGatedByOwnBox ==
    /\ \A k \in 1..Len(Visits) :
          LET v == Visits[k] IN
          IF v.calls = <<>> THEN v.far_test = "none"
          ELSE LET node == TraversalTree.nodes[v.node_index + 1]
                   near == v.calls[1].child
                   far  == OtherChild(near)
                   near_to_box ==
                       CornerDistance2(TraversalArg[1], TraversalArg[2],
                                       ChildBox(node, far)) < 1000000
               IN  /\ v.calls[1].ref = ChildRef(node, near)
                   /\ v.far_test \in {"pending", "visible", "hidden"}
                   /\ v.far_test = "visible" =>
                          /\ near_to_box
                          /\ v.calls = << v.calls[1],
                                          [child |-> far, ref |-> ChildRef(node, far)] >>
                   /\ v.far_test = "hidden" => (~near_to_box /\ Len(v.calls) = 1)
                   /\ v.far_test = "pending" => Len(v.calls) = 1
    /\ Visits # <<>> => Len(Visits) + Entering = 1 + CallCount(Visits)
    /\ \A k \in 2..Len(Visits) :
          \E j \in 1..(k - 1) : \E c \in 1..Len(Visits[j].calls) :
              Visits[j].calls[c].ref = Visits[k].node_index
    /\ (call.fn = "traverse_bsp" /\ call.ret.status = "Ok")
          => \A k \in 1..Len(call.visits) : call.visits[k].far_test # "pending"

\* a viewer on both lines: node 0 recursed into its left child and then,
\* its right box being near, into node 1, which recursed into its left
\* child only, its right box being far away
C18_Witness ==
    /\ call.fn = "traverse_bsp"
    /\ call.ret.status = "Ok"
    /\ call.arg = << 0, 0, 0 >>
    /\ call.ret.value = << 2, 1 >>
    /\ \E k \in 1..Len(call.visits) :
          /\ call.visits[k].node_index = 0
          /\ call.visits[k].far_test = "visible"
    /\ \E k \in 1..Len(call.visits) :
          /\ call.visits[k].node_index = 1
          /\ call.visits[k].far_test = "hidden"

----------------------------------------------------------------------------
(* C14 *)

\* q is the mirror image of p across the line: the segment from p to q is
\* perpendicular to the line and its midpoint is on the line
IsMirror(p, q, line) ==
    /\ (q[1] - p[1]) * line.dx + (q[2] - p[2]) * line.dy = 0
    /\ (p[1] + q[1] - 2 * line.x) * line.dy
          - (p[2] + q[2] - 2 * line.y) * line.dx = 0

\* C14: a point off a partition line and its mirror image across the line
\* are classified 1 and -1, one each; a point on the line (cross product 0),
\* which is its own mirror image, is classified -1, the side of the left
\* branch.
C14_Antisymmetric ==
    (pc = "point_on_side" /\ Len(call.ret) = 2) =>
        LET p == call.points[1]
            q == call.points[2]
        IN  /\ IsMirror(p, q, call.line)
            /\ Cross(p[1], p[2], call.line) # 0
                  => /\ { call.ret[1], call.ret[2] } = { 1, -1 }
                     /\ call.ret[1] + call.ret[2] = 0
            /\ Cross(p[1], p[2], call.line) = 0
                  => (q = p /\ call.ret[1] = -1 /\ call.ret[2] = -1)

\* a point off a skew line, with its mirror image classified the other way
C14_Witness ==
    /\ pc = "point_on_side"
    /\ call.line = PartitionLine(0, 0, 2, 1)
    /\ call.points = << << 3, -1 >>, << 1, 3 >> >>
    /\ call.ret = << 1, -1 >>

----------------------------------------------------------------------------
(* C15 *)

\* the squared distance from the viewer of the k-th sprite of the list
\* (sprite_log names the sprites from 0, as enumerate() does)
Distance2Of(index) == distance2(sprites[index + 1], Viewer)

DistinctFinite ==
    /\ \A i \in 1..Len(sprites) : Distance2Of(i - 1) # NaN
    /\ \A i, j \in 1..Len(sprites) :
          Distance2Of(i - 1) = Distance2Of(j - 1) => i = j

\* whether the entries of a log of render_sprite calls go from the
\* farthest sprite to the nearest
FarthestFirst(log) ==
    \A i, j \in 1..Len(log) :
        i < j => Distance2Of(log[i].index)[1] >= Distance2Of(log[j].index)[1]

\* how many entries of a log are about the sprite of an index
Occurrences(log, index) ==
    Cardinality({ k \in 1..Len(log) : log[k].index = index })

IsDrawn(entry) == entry.drawn # << >>

\* the render_sprite calls that drew the column of their sprite
Draws == SelectSeq(sprite_log, IsDrawn)

\* C15 as stated: of a list of sprites whose distances from the viewer are
\* distinct and finite, a finished sprite pass has drawn every sprite
\* exactly once, the farthest first and the nearest last.
C15_Original_EachDrawnOnce ==
    (rpc = "sprites_done" /\ DistinctFinite) =>
        /\ FarthestFirst(Draws)
        /\ \A k \in 1..Len(sprites) : Occurrences(Draws, k - 1) = 1

\* C15: of a list of sprites whose distances from the viewer are distinct
\* and finite, the sprite pass does not panic and renders the sprites from
\* the farthest to the nearest, none twice and, when it is finished, each
\* once; the column of a sprite is drawn by its one render_sprite call or
\* not at all: it is drawn in a column of the screen for a sprite straight
\* ahead, and not drawn for a sprite straight to the side of the viewer.
C15_RenderedFarthestFirst ==
    (rpc \in {"render_sprites", "render_sprite", "sprites_done", "panicked"}
        /\ DistinctFinite) =>
        /\ rpc # "panicked"
        /\ FarthestFirst(sprite_log)
        /\ \A k \in 1..Len(sprites) :
              /\ Occurrences(sprite_log, k - 1) <= 1
              /\ rpc = "sprites_done" => Occurrences(sprite_log, k - 1) = 1
        /\ \A k \in 1..Len(sprite_log) :
              LET e == sprite_log[k]
                  sprite == sprites[e.index + 1]
              IN  /\ e.sprite = sprite
                  /\ IsDrawn(e) => e.drawn[1] \in Columns
                  /\ (sprite.y = Num(0) /\ sprite.x[1] > 0) => IsDrawn(e)
                  /\ (sprite.x = Num(0) /\ sprite.y # Num(0)) => ~IsDrawn(e)

\* three sprites, not in order of distance and one of them beside the
\* viewer, rendered from the farthest to the nearest
C15_Witness ==
    /\ rpc = "sprites_done"
    /\ sprites = << Sprite(Num(1), Num(0)), Sprite(Num(0), Num(-4)),
                    Sprite(Num(3), Num(0)) >>
    /\ Len(sprite_log) = 3
    /\ sprite_log[1].index = 1 /\ ~IsDrawn(sprite_log[1])
    /\ sprite_log[2].index = 2 /\ IsDrawn(sprite_log[2])
    /\ sprite_log[3].index = 0 /\ IsDrawn(sprite_log[3])

----------------------------------------------------------------------------
(* C16 *)

HasNaN == \E k \in 1..Len(sprites) : Distance2Of(k - 1) = NaN

\* the entries of a log about sprites whose distance is a number
FiniteEntry(entry) == Distance2Of(entry.index) # NaN

\* C16: a sprite pass over a list with a sprite whose distance is a NaN
\* does not panic; when it is finished it has drawn no such sprite and has
\* rendered every other sprite of the list once, the farthest first.
C16_Original_NaNSkipped ==
    (rpc \in {"render_sprites", "render_sprite", "sprites_done", "panicked"}
        /\ HasNaN) =>
        /\ rpc # "panicked"
        /\ rpc = "sprites_done" =>
              /\ \A k \in 1..Len(sprite_log) :
                    ~FiniteEntry(sprite_log[k]) => ~IsDrawn(sprite_log[k])
              /\ FarthestFirst(SelectSeq(sprite_log, FiniteEntry))
              /\ \A k \in 1..Len(sprites) :
                    Distance2Of(k - 1) # NaN
                        => Occurrences(sprite_log, k - 1) = 1

----------------------------------------------------------------------------
(* C17 *)

\* what the floor/ceiling pass leaves in a row
FloorOrCeiling(y) == IF y < ScreenHeight \div 2 THEN "ceiling" ELSE "floor"

\* C17: in a frame presented with an active map, every pixel of a column
\* whose ray hit nothing shows the ceiling (above the midline) or the floor,
\* never the cleared background, and every pixel of a column whose ray hit
\* a wall shows the wall or, outside the wall span, the ceiling or floor.
C17_Original_FloorCeilingFirst ==
    (rpc = "presented" /\ scene.current_map # <<>>) =>
        \A x \in Columns : \A y \in Rows :
            IF hits[x + 1].hit = <<>>
            THEN canvas[x][y] = FloorOrCeiling(y)
            ELSE canvas[x][y] \in {"wall", FloorOrCeiling(y)}

----------------------------------------------------------------------------
(* C19 *)

\* the distances 0, 1, .., n - 1 in increasing order
FirstDistances(n) == [k \in 1..n |-> k - 1]

\* the distances at which the wall test succeeds on the ray of a column
WallsOf(x) == scene.current_map[1][x + 1]

\* C19: a ray tests the distances 0, 1, 2, .. in this order and no more
\* than the 1000 distances below 1000; while it goes on, the wall test has
\* failed at every distance tested; it returns a hit at the first distance
\* at which the wall test succeeds, which is the last one it tested, and it
\* returns no hit exactly when the wall test fails at each of the
\* distances 0..999, all of which it has tested then.
C19_FirstHitWithin1000 ==
    /\ ray # <<>> =>
          /\ ray.tested = FirstDistances(Len(ray.tested))
          /\ ray.distance = Len(ray.tested)
          /\ Len(ray.tested) <= 1000
          /\ \A d \in 0..(Len(ray.tested) - 1) : d \notin WallsOf(column)
    /\ \A k \in 1..Len(hits) :
          LET h == hits[k]
              walls == WallsOf(k - 1)
          IN  /\ h.tested = FirstDistances(Len(h.tested))
              /\ Len(h.tested) <= 1000
              /\ h.hit # <<>> =>
                    /\ h.hit[1] \in walls
                    /\ h.hit[1] = Len(h.tested) - 1
                    /\ \A d \in 0..(h.hit[1] - 1) : d \notin walls
              /\ h.hit = <<>> <=> (\A d \in 0..999 : d \notin walls)
              /\ h.hit = <<>> => Len(h.tested) = 1000

\* a frame in which a ray returned no hit after 1000 samples, the walls of
\* its column being beyond the view distance, and another returned the
\* nearer of two walls after 4 samples
C19_Witness ==
    /\ rpc = "presented"
    /\ \E k \in 1..Len(hits) :
          /\ hits[k].hit = <<>>
          /\ Len(hits[k].tested) = 1000
          /\ WallsOf(k - 1) # {}
    /\ \E k \in 1..Len(hits) :
          /\ hits[k].hit = << 3 >>
          /\ Len(hits[k].tested) = 4
          /\ 7 \in WallsOf(k - 1)

====
